---------------------------- MODULE Spec2Model ----------------------------
(***************************************************************************)
(* Model of app.py: the whitelist expression evaluator (safe_eval and      *)
(* _eval_node) and the calculator page that calls it (text input, keypad,  *)
(* Compute, Clear, Clear History, session history).                        *)
(*                                                                         *)
(* Numbers.  A Python value is a record [t, n, d]: t is the Python type    *)
(* ("int", "bool", "float", "complex"), n/d the numeric value in lowest    *)
(* terms (d = 1 for int and bool).  A float is modelled by the exact       *)
(* rational it stands for; a complex value keeps only its type.  A result  *)
(* the model cannot represent exactly (numerator or denominator above      *)
(* MaxAbs, an irrational function value, arithmetic that needs the value   *)
(* of a complex number) raises the pseudo exception "OutOfModel"; inputs   *)
(* that reach it are excluded by the guards of the actions.                *)
(***************************************************************************)
EXTENDS Integers, Sequences, FiniteSets, TLC

(***************************************************************************)
(* Bounds of the model.                                                    *)
(***************************************************************************)
\* largest numerator / denominator of a represented number
MaxAbs == 10000
\* the interpreter's recursion limit, counted in frames of _eval_node
\* (sys.getrecursionlimit() is 1000 by default; the model scales it down)
RecursionLimit == 5
\* a text gets at most this many wrappers of any kind
MaxWraps == 1
\* a text is resubmitted at most this many times
MaxResubmits == 1
\* buttons pressed in one session of the page
MaxPresses == 4

VARIABLES
    \* the whitelist tables (module-level dictionaries)
    _allowed_binops, _allowed_unaryops, _math_funcs, _constants,
    \* the interpreter the process runs on: TRUE when math.factorial still
    \* takes floats (CPython before 3.10), FALSE when it raises TypeError
    legacy_factorial,
    \* the evaluator's caller: the parse of the submitted text, the outcome
    \* of the last safe_eval call, and the calls made so far
    parsed, outcome, calls,
    \* the page: the text_input widget, st.session_state, the message shown
    \* by the last script run, and the buttons pressed so far
    text_input, session_state, message, presses

\* ------------------------------------------------------------------------
\* Python values and the results of primitive operations
\* ------------------------------------------------------------------------
NoVal == [t |-> "none", n |-> 0, d |-> 1]
IntV(i) == [t |-> "int", n |-> i, d |-> 1]
BoolV(b) == [t |-> "bool", n |-> IF b THEN 1 ELSE 0, d |-> 1]
ComplexV == [t |-> "complex", n |-> 0, d |-> 1]

Ok(v) == [ok |-> TRUE, val |-> v, exc |-> ""]
Raise(e) == [ok |-> FALSE, val |-> NoVal, exc |-> e]

Abs(i) == IF i < 0 THEN -i ELSE i

RECURSIVE GCD(_, _)
GCD(a, b) == IF b = 0 THEN a ELSE GCD(b, a % b)

InRange(n, d) == Abs(n) <= MaxAbs /\ d <= MaxAbs

\* the float n/d (d # 0), in lowest terms
MkFloat(n, d) ==
    LET s == IF d < 0 THEN -1 ELSE 1
        g == GCD(Abs(n), Abs(d))
        nn == (s * n) \div g
        dd == (s * d) \div g
    IN  IF InRange(nn, dd) THEN Ok([t |-> "float", n |-> nn, d |-> dd])
        ELSE Raise("OutOfModel")

MkInt(i) == IF Abs(i) <= MaxAbs THEN Ok(IntV(i)) ELSE Raise("OutOfModel")

IsReal(v) == v.t \in {"int", "bool", "float"}
IsIntLike(v) == v.t \in {"int", "bool"}
IsIntegral(v) == v.d = 1
\* floor of the rational n/d, d > 0
Floor(n, d) == n \div d
Ceil(n, d) == -((-n) \div d)

RECURSIVE ISqrtFrom(_, _)
ISqrtFrom(n, r) == IF r * r >= n THEN r ELSE ISqrtFrom(n, r + 1)
IsSquare(n) == n >= 0 /\ ISqrtFrom(n, 0) * ISqrtFrom(n, 0) = n

\* base^e for a rational base and an integer e >= 0, by repeated
\* multiplication; <<0, 0>> when the result leaves the represented range
RECURSIVE PowAcc(_, _, _, _, _)
PowAcc(an, ad, n, d, e) ==
    IF e = 0 THEN <<an, ad>>
    ELSE IF ~InRange(an * n, ad * d) THEN <<0, 0>>
    ELSE PowAcc(an * n, ad * d, n, d, e - 1)

PowNat(n, d, e) ==
    IF d = 1 /\ n = 0 THEN (IF e = 0 THEN <<1, 1>> ELSE <<0, 1>>)
    ELSE IF d = 1 /\ n = 1 THEN <<1, 1>>
    ELSE IF d = 1 /\ n = -1 THEN (IF e % 2 = 0 THEN <<1, 1>> ELSE <<-1, 1>>)
    ELSE PowAcc(1, 1, n, d, e)

\* ------------------------------------------------------------------------
\* The operator functions of the tables (operator.add ... operator.pow)
\* ------------------------------------------------------------------------
AnyComplex(l, r) == l.t = "complex" \/ r.t = "complex"
AnyFloat(l, r) == l.t = "float" \/ r.t = "float"

\* an exact result n/d of an operation on l and r, with Python's result type
\* A float whose denominator is a power of two is held exactly by the
\* machine; any other float is only close to the rational that models it.
RECURSIVE IsPow2(_)
IsPow2(d) == d = 1 \/ (d % 2 = 0 /\ IsPow2(d \div 2))
Exact(v) == v.t # "float" \/ IsPow2(v.d)

\* the float n/d computed from the operands ops: when an operand is not
\* exact, a result that is a binary fraction in the model need not be the
\* one the machine computes
FloatOf(ops, n, d) ==
    LET f == MkFloat(n, d)
    IN  IF f.ok /\ IsPow2(f.val.d) /\ \E i \in 1..Len(ops) : ~Exact(ops[i])
        THEN Raise("OutOfModel")
        ELSE f

NumResult(l, r, n, d) ==
    IF AnyFloat(l, r) THEN FloatOf(<<l, r>>, n, d) ELSE MkInt(n \div d)

\* numerators of l and r over the common denominator l.d * r.d
NumL(l, r) == l.n * r.d
NumR(l, r) == r.n * l.d

\* Python's floor division and modulo of integers, b # 0
PyFloorDiv(a, b) == IF b > 0 THEN a \div b ELSE (-a) \div (-b)
PyMod(a, b) == IF b > 0 THEN a % b ELSE -((-a) % (-b))

op_add(l, r) ==
    IF AnyComplex(l, r) THEN Ok(ComplexV)
    ELSE NumResult(l, r, NumL(l, r) + NumR(l, r), l.d * r.d)

op_sub(l, r) ==
    IF AnyComplex(l, r) THEN Ok(ComplexV)
    ELSE NumResult(l, r, NumL(l, r) - NumR(l, r), l.d * r.d)

op_mul(l, r) ==
    IF AnyComplex(l, r) THEN Ok(ComplexV)
    ELSE NumResult(l, r, l.n * r.n, l.d * r.d)

op_truediv(l, r) ==
    IF r.t = "complex" THEN Raise("OutOfModel")
    ELSE IF r.n = 0 THEN Raise("ZeroDivisionError")
    ELSE IF l.t = "complex" THEN Ok(ComplexV)
    ELSE FloatOf(<<l, r>>, NumL(l, r), NumR(l, r))

op_floordiv(l, r) ==
    IF AnyComplex(l, r) THEN Raise("TypeError")
    ELSE IF r.n = 0 THEN Raise("ZeroDivisionError")
    ELSE NumResult(l, r, PyFloorDiv(NumL(l, r), NumR(l, r)), 1)

op_mod(l, r) ==
    IF AnyComplex(l, r) THEN Raise("TypeError")
    ELSE IF r.n = 0 THEN Raise("ZeroDivisionError")
    ELSE NumResult(l, r, PyMod(NumL(l, r), NumR(l, r)), l.d * r.d)

\* b ** x for real b > 0 and a non-integral x: exact for b = 1 and for
\* x = k/2 with b a square
PowFrac(b, x) ==
    IF b.n = b.d THEN MkFloat(1, 1)
    ELSE IF x.d = 2 /\ IsSquare(b.n) /\ IsSquare(b.d) THEN
        LET rn == ISqrtFrom(b.n, 0)
            rd == ISqrtFrom(b.d, 0)
            p == PowNat(rn, rd, Abs(x.n))
        IN  IF p = <<0, 0>> THEN Raise("OutOfModel")
            ELSE IF x.n > 0 THEN FloatOf(<<b, x>>, p[1], p[2])
            ELSE FloatOf(<<b, x>>, p[2], p[1])
    ELSE Raise("OutOfModel")

\* b ** x for real b and an integral x
PowIntegral(b, x) ==
    LET p == PowNat(b.n, b.d, Abs(x.n))
    IN  IF x.n < 0 /\ b.n = 0 THEN Raise("ZeroDivisionError")
        ELSE IF p = <<0, 0>> THEN Raise("OutOfModel")
        ELSE IF x.n < 0 THEN FloatOf(<<b, x>>, p[2], p[1])
        ELSE NumResult(b, x, p[1], p[2])

op_pow(l, r) ==
    IF AnyComplex(l, r) THEN Raise("OutOfModel")
    ELSE IF IsIntegral(r) THEN PowIntegral(l, r)
    ELSE IF l.n < 0 THEN Ok(ComplexV)
    ELSE IF l.n = 0 THEN
        (IF r.n < 0 THEN Raise("ZeroDivisionError") ELSE MkFloat(0, 1))
    ELSE PowFrac(l, r)

\* lambda x: x  and  lambda x: -x
unary_pos(x) == Ok(x)
unary_neg(x) ==
    IF x.t = "complex" THEN Ok(ComplexV)
    ELSE IF x.t = "float" THEN MkFloat(-x.n, x.d)
    ELSE MkInt(-x.n)

\* ------------------------------------------------------------------------
\* The functions of _math_funcs (the math module and the builtin abs)
\* ------------------------------------------------------------------------
math_pi == [t |-> "float", n |-> 355, d |-> 113]
math_e == [t |-> "float", n |-> 193, d |-> 71]

\* the exception raised before the function body runs: a wrong number of
\* arguments or an argument that is not a real number
ArgError(args, lo, hi) ==
    IF Len(args) < lo \/ Len(args) > hi THEN "TypeError"
    ELSE IF \E i \in 1..Len(args) : ~IsReal(args[i]) THEN "TypeError"
    ELSE ""

\* f(0) = y0 is the one exactly representable point of f
AtZero(args, yn) ==
    IF ArgError(args, 1, 1) # "" THEN Raise("TypeError")
    ELSE IF args[1].n = 0 THEN MkFloat(yn, 1)
    ELSE Raise("OutOfModel")

math_sin(args) == AtZero(args, 0)
math_cos(args) == AtZero(args, 1)
math_tan(args) == AtZero(args, 0)
math_atan(args) == AtZero(args, 0)

math_asin(args) ==
    IF ArgError(args, 1, 1) # "" THEN Raise("TypeError")
    ELSE IF Abs(args[1].n) > args[1].d THEN Raise("ValueError")
    ELSE IF args[1].n = 0 THEN MkFloat(0, 1)
    ELSE Raise("OutOfModel")

math_acos(args) ==
    IF ArgError(args, 1, 1) # "" THEN Raise("TypeError")
    ELSE IF Abs(args[1].n) > args[1].d THEN Raise("ValueError")
    ELSE IF args[1].n = args[1].d THEN MkFloat(0, 1)
    ELSE Raise("OutOfModel")

math_sqrt(args) ==
    IF ArgError(args, 1, 1) # "" THEN Raise("TypeError")
    ELSE IF args[1].n < 0 THEN Raise("ValueError")
    ELSE IF IsSquare(args[1].n) /\ IsSquare(args[1].d)
         THEN MkFloat(ISqrtFrom(args[1].n, 0), ISqrtFrom(args[1].d, 0))
    ELSE Raise("OutOfModel")

math_exp(args) ==
    IF ArgError(args, 1, 1) # "" THEN Raise("TypeError")
    ELSE IF args[1].n = 0 THEN MkFloat(1, 1)
    ELSE IF args[1].n >= 710 * args[1].d THEN Raise("OverflowError")
    ELSE Raise("OutOfModel")

\* k when n = 10^k (k >= 0), -1 otherwise
RECURSIVE Log10Nat(_)
Log10Nat(n) ==
    IF n = 1 THEN 0
    ELSE IF n < 10 \/ n % 10 # 0 THEN -1
    ELSE LET k == Log10Nat(n \div 10) IN IF k < 0 THEN -1 ELSE k + 1

math_log10(args) ==
    IF ArgError(args, 1, 1) # "" THEN Raise("TypeError")
    ELSE IF args[1].n <= 0 THEN Raise("ValueError")
    ELSE IF args[1].d = 1 /\ Log10Nat(args[1].n) >= 0
         THEN MkFloat(Log10Nat(args[1].n), 1)
    ELSE IF args[1].n = 1 /\ Log10Nat(args[1].d) >= 0
         THEN MkFloat(-Log10Nat(args[1].d), 1)
    ELSE Raise("OutOfModel")

\* math.log(x) and math.log(x, base) = log(x) / log(base)
math_log(args) ==
    IF Len(args) < 1 \/ Len(args) > 2 THEN Raise("TypeError")
    ELSE IF ~IsReal(args[1]) THEN Raise("TypeError")
    ELSE IF args[1].n <= 0 THEN Raise("ValueError")
    ELSE IF Len(args) = 1 THEN
        (IF args[1].n = args[1].d THEN MkFloat(0, 1) ELSE Raise("OutOfModel"))
    ELSE IF ~IsReal(args[2]) THEN Raise("TypeError")
    ELSE IF args[2].n <= 0 THEN Raise("ValueError")
    ELSE IF args[2].n = args[2].d THEN Raise("ZeroDivisionError")
    ELSE IF args[1].n = args[1].d THEN MkFloat(0, 1)
    ELSE IF args[1].n = args[2].n /\ args[1].d = args[2].d THEN MkFloat(1, 1)
    ELSE Raise("OutOfModel")

\* the float value of a primitive result
AsFloat(r) == IF r.ok THEN MkFloat(r.val.n, r.val.d) ELSE r

math_pow(args) ==
    IF ArgError(args, 2, 2) # "" THEN Raise("TypeError")
    ELSE IF args[1].n = 0 /\ args[2].n < 0 THEN Raise("ValueError")
    ELSE IF args[1].n < 0 /\ ~IsIntegral(args[2]) THEN Raise("ValueError")
    ELSE AsFloat(op_pow(args[1], args[2]))

builtin_abs(args) ==
    IF Len(args) # 1 THEN Raise("TypeError")
    ELSE IF args[1].t = "complex" THEN Raise("OutOfModel")
    ELSE IF args[1].t = "float" THEN MkFloat(Abs(args[1].n), args[1].d)
    ELSE MkInt(Abs(args[1].n))

math_floor(args) ==
    IF ArgError(args, 1, 1) # "" THEN Raise("TypeError")
    ELSE MkInt(Floor(args[1].n, args[1].d))

math_ceil(args) ==
    IF ArgError(args, 1, 1) # "" THEN Raise("TypeError")
    ELSE MkInt(Ceil(args[1].n, args[1].d))

\* k * (k+1) * ... * n times acc, 0 when it leaves the represented range
RECURSIVE FactAcc(_, _, _)
FactAcc(acc, k, n) ==
    IF k > n THEN acc
    ELSE IF acc * k > MaxAbs THEN 0
    ELSE FactAcc(acc * k, k + 1, n)

FactInt(n) ==
    IF n < 0 THEN Raise("ValueError")
    ELSE IF FactAcc(1, 1, n) = 0 THEN Raise("OutOfModel")
    ELSE MkInt(FactAcc(1, 1, n))

math_factorial(args) ==
    IF ArgError(args, 1, 1) # "" THEN Raise("TypeError")
    ELSE IF IsIntLike(args[1]) THEN FactInt(args[1].n)
    ELSE IF ~legacy_factorial THEN Raise("TypeError")
    ELSE IF ~IsIntegral(args[1]) THEN Raise("ValueError")
    ELSE FactInt(args[1].n)

math_radians(args) ==
    IF ArgError(args, 1, 1) # "" THEN Raise("TypeError")
    ELSE FloatOf(args, args[1].n * math_pi.n, args[1].d * math_pi.d * 180)

math_degrees(args) ==
    IF ArgError(args, 1, 1) # "" THEN Raise("TypeError")
    ELSE FloatOf(args, args[1].n * math_pi.d * 180, args[1].d * math_pi.n)

\* ------------------------------------------------------------------------
\* The whitelist tables as they are built at import time.  A table maps a
\* key to the name of the callable stored under it.
\* ------------------------------------------------------------------------
InitBinops ==
    [o \in {"Add", "Sub", "Mult", "Div", "FloorDiv", "Mod", "Pow"} |->
        CASE o = "Add" -> "op.add"
          [] o = "Sub" -> "op.sub"
          [] o = "Mult" -> "op.mul"
          [] o = "Div" -> "op.truediv"
          [] o = "FloorDiv" -> "op.floordiv"
          [] o = "Mod" -> "op.mod"
          [] o = "Pow" -> "op.pow"]

InitUnaryops ==
    [o \in {"UAdd", "USub"} |->
        IF o = "UAdd" THEN "lambda x: x" ELSE "lambda x: -x"]

FuncNames ==
    {"sin", "cos", "tan", "asin", "acos", "atan", "sqrt", "log", "log10",
     "exp", "pow", "abs", "floor", "ceil", "factorial", "radians", "degrees"}

InitMathFuncs ==
    [f \in FuncNames |-> IF f = "abs" THEN "abs" ELSE "math." \o f]

InitConstants == [c \in {"pi", "e"} |-> IF c = "pi" THEN math_pi ELSE math_e]

\* calling the callable stored in a table
CallBinop(impl, l, r) ==
    CASE impl = "op.add" -> op_add(l, r)
      [] impl = "op.sub" -> op_sub(l, r)
      [] impl = "op.mul" -> op_mul(l, r)
      [] impl = "op.truediv" -> op_truediv(l, r)
      [] impl = "op.floordiv" -> op_floordiv(l, r)
      [] impl = "op.mod" -> op_mod(l, r)
      [] impl = "op.pow" -> op_pow(l, r)

CallUnaryop(impl, x) ==
    CASE impl = "lambda x: x" -> unary_pos(x)
      [] impl = "lambda x: -x" -> unary_neg(x)

CallFunc(impl, args) ==
    CASE impl = "math.sin" -> math_sin(args)
      [] impl = "math.cos" -> math_cos(args)
      [] impl = "math.tan" -> math_tan(args)
      [] impl = "math.asin" -> math_asin(args)
      [] impl = "math.acos" -> math_acos(args)
      [] impl = "math.atan" -> math_atan(args)
      [] impl = "math.sqrt" -> math_sqrt(args)
      [] impl = "math.log" -> math_log(args)
      [] impl = "math.log10" -> math_log10(args)
      [] impl = "math.exp" -> math_exp(args)
      [] impl = "math.pow" -> math_pow(args)
      [] impl = "abs" -> builtin_abs(args)
      [] impl = "math.floor" -> math_floor(args)
      [] impl = "math.ceil" -> math_ceil(args)
      [] impl = "math.factorial" -> math_factorial(args)
      [] impl = "math.radians" -> math_radians(args)
      [] impl = "math.degrees" -> math_degrees(args)

\* ------------------------------------------------------------------------
\* AST nodes.  kind is the node class; op the operator class of a BinOp or
\* UnaryOp; id the identifier of a Name; value the value of a Constant;
\* func the function position of a Call (a sequence of one node);
\* kids the operands of an operator, the positional arguments of a Call,
\* the body of an Expression or the children of any other node; keywords
\* the values of the keyword arguments of a Call.
\* ------------------------------------------------------------------------
Node(kind, op, id, value, func, kids, keywords) ==
    [kind |-> kind, op |-> op, id |-> id, value |-> value, func |-> func,
     kids |-> kids, keywords |-> keywords]

Constant(v) == Node("Constant", "", "", v, <<>>, <<>>, <<>>)
Name(id) == Node("Name", "", id, NoVal, <<>>, <<>>, <<>>)
BinOp(l, op, r) == Node("BinOp", op, "", NoVal, <<>>, <<l, r>>, <<>>)
UnaryOp(op, x) == Node("UnaryOp", op, "", NoVal, <<>>, <<x>>, <<>>)
Call(f, args, kws) == Node("Call", "", "", NoVal, <<f>>, args, kws)
Expression(b) == Node("Expression", "", "", NoVal, <<>>, <<b>>, <<>>)
\* a node of any other class (Attribute, Subscript, Lambda, Compare, ...)
Other(kind, kids) == Node(kind, "", "", NoVal, <<>>, kids, <<>>)

Children(node) == node.func \o node.kids \o node.keywords

RECURSIVE Height(_)
Height(node) ==
    LET c == Children(node)
        hs == {Height(c[i]) : i \in 1..Len(c)}
    IN  1 + (IF hs = {} THEN 0 ELSE CHOOSE h \in hs : \A g \in hs : g <= h)

\* ast.walk: the node and all its descendants
RECURSIVE Walk(_)
Walk(node) ==
    LET c == Children(node)
    IN  {node} \cup UNION {Walk(c[i]) : i \in 1..Len(c)}

\* ------------------------------------------------------------------------
\* Outcomes of an evaluation: a value, an EvalError (err is the message
\* class, name the function, identifier or operator it carries, exc the
\* Python exception it wraps), or an exception that escapes.  trace lists,
\* in order, what the evaluation did.
\* ------------------------------------------------------------------------
Value(v, tr) ==
    [kind |-> "value", val |-> v, err |-> "", name |-> "", exc |-> "",
     trace |-> tr]
EvalError(err, name, exc, tr) ==
    [kind |-> "EvalError", val |-> NoVal, err |-> err, name |-> name,
     exc |-> exc, trace |-> tr]
Escapes(exc, tr) ==
    [kind |-> exc, val |-> NoVal, err |-> "", name |-> "", exc |-> exc,
     trace |-> tr]

Ev(what, name) == [ev |-> what, name |-> name]
WithTrace(o, tr) == [o EXCEPT !.trace = tr \o @]

\* ------------------------------------------------------------------------
\* _eval_node.  depth is the number of _eval_node frames on the stack, this
\* call included; a call beyond RecursionLimit raises RecursionError.
\* ------------------------------------------------------------------------
RECURSIVE _eval_node(_, _), EvalArgs(_, _)

\* the result of the try block around func(left, right)
EvalBinOp(node, l, r, tr) ==
    IF node.op \in DOMAIN _allowed_binops THEN
        LET impl == _allowed_binops[node.op]
            res == CallBinop(impl, l, r)
            tr2 == tr \o <<Ev("call", impl)>>
        IN  IF res.ok THEN Value(res.val, tr2)
            ELSE IF res.exc = "OutOfModel" THEN Escapes("OutOfModel", tr2)
            ELSE EvalError("OperationError", node.op, res.exc, tr2)
    ELSE EvalError("OperatorNotSupported", node.op, "", tr)

EvalUnaryOp(node, x, tr) ==
    IF node.op \in DOMAIN _allowed_unaryops THEN
        LET impl == _allowed_unaryops[node.op]
            res == CallUnaryop(impl, x)
            tr2 == tr \o <<Ev("call", impl)>>
        IN  IF res.ok THEN Value(res.val, tr2) ELSE Escapes(res.exc, tr2)
    ELSE EvalError("UnaryNotSupported", node.op, "", tr)

\* the result of the try block around func(*args)
\* a variant with a single except clause, every failure of the function
\* reported as bad arguments; C6_ArityAndDomainErrors tells it apart
EvalFuncCall_OneExcept(func_name, args, tr) ==
    LET impl == _math_funcs[func_name]
        res == CallFunc(impl, args)
        tr2 == tr \o <<Ev("call", impl)>>
    IN  IF res.ok THEN Value(res.val, tr2)
        ELSE IF res.exc = "OutOfModel" THEN Escapes("OutOfModel", tr2)
        ELSE EvalError("BadArguments", func_name, res.exc, tr2)

\* the try block of the ast.Call branch
EvalFuncCall(func_name, args, tr) ==
    LET impl == _math_funcs[func_name]
        res == CallFunc(impl, args)
        tr2 == tr \o <<Ev("call", impl)>>
    IN  IF res.ok THEN Value(res.val, tr2)
        ELSE IF res.exc = "OutOfModel" THEN Escapes("OutOfModel", tr2)
        ELSE IF res.exc = "TypeError"
             THEN EvalError("BadArguments", func_name, res.exc, tr2)
        ELSE EvalError("ErrorCalling", func_name, res.exc, tr2)

\* a variant that evaluates the arguments before it looks the name up;
\* C8_LookupBeforeArgs tells it apart
EvalCall_ArgsFirst(node, depth, tr) ==
    IF node.func[1].kind = "Name" THEN
        LET func_name == node.func[1].id
            a == EvalArgs(node.kids, depth + 1)
            tr1 == tr \o a.trace \o <<Ev("lookup", func_name)>>
        IN  IF a.fail THEN WithTrace(a.out, tr)
            ELSE IF func_name \in DOMAIN _math_funcs
            THEN EvalFuncCall(func_name, a.vals, tr1)
            ELSE EvalError("FunctionNotAllowed", func_name, "", tr1)
    ELSE EvalError("OnlyDirectNames", "", "", tr)

\* the branch for ast.Call
EvalCall(node, depth, tr) ==
    IF node.func[1].kind = "Name" THEN
        LET func_name == node.func[1].id
            tr1 == tr \o <<Ev("lookup", func_name)>>
        IN  IF func_name \in DOMAIN _math_funcs THEN
                LET a == EvalArgs(node.kids, depth + 1)
                IN  IF a.fail THEN WithTrace(a.out, tr1)
                    ELSE EvalFuncCall(func_name, a.vals, tr1 \o a.trace)
            ELSE EvalError("FunctionNotAllowed", func_name, "", tr1)
    ELSE EvalError("OnlyDirectNames", "", "", tr)

\* the branch for ast.Constant
EvalConstant(node, tr) ==
    IF node.value.t \in {"int", "bool", "float"}
    THEN Value(node.value, tr)
    ELSE EvalError("OnlyNumericConstants", "", "", tr)

\* the branch for ast.Name
\* a variant that also resolves the names of the function table;
\* C2_OnlyWhitelisted tells it apart
EvalName_AnyTable(node, tr) ==
    IF node.id \in DOMAIN _constants \cup DOMAIN _math_funcs
    THEN Value(IF node.id \in DOMAIN _constants
               THEN _constants[node.id] ELSE NoVal,
               tr \o <<Ev("name", node.id), Ev("resolve", node.id)>>)
    ELSE EvalError("UnknownIdentifier", node.id, "",
                   tr \o <<Ev("name", node.id)>>)

\* the branch for ast.Name
EvalName(node, tr) ==
    IF node.id \in DOMAIN _constants
    THEN Value(_constants[node.id],
               tr \o <<Ev("name", node.id), Ev("resolve", node.id)>>)
    ELSE EvalError("UnknownIdentifier", node.id, "",
                   tr \o <<Ev("name", node.id)>>)

\* the final raise; ast.dump(node) recurses once per level of the node
EvalUnsupported(node, depth, tr) ==
    IF depth + Height(node) > RecursionLimit
    THEN Escapes("RecursionError", tr)
    ELSE EvalError("Unsupported", node.kind, "", tr)

\* [_eval_node(arg) for arg in node.args]: left to right, stopping at the
\* first argument that raises
EvalArgs(args, depth) ==
    IF args = <<>> THEN
        [fail |-> FALSE, out |-> Value(NoVal, <<>>), vals |-> <<>>,
         trace |-> <<>>]
    ELSE
        LET h == _eval_node(Head(args), depth)
        IN  IF h.kind # "value" THEN
                [fail |-> TRUE, out |-> h, vals |-> <<>>, trace |-> <<>>]
            ELSE
                LET rest == EvalArgs(Tail(args), depth)
                IN  IF rest.fail THEN
                        [rest EXCEPT !.out = WithTrace(rest.out, h.trace)]
                    ELSE
                        [fail |-> FALSE, out |-> Value(NoVal, <<>>),
                         vals |-> <<h.val>> \o rest.vals,
                         trace |-> h.trace \o rest.trace]

_eval_node(node, depth) ==
    LET tr == <<Ev("visit", node.kind)>>
    IN
    IF depth > RecursionLimit THEN Escapes("RecursionError", <<>>)
    ELSE IF node.kind = "Expression" THEN _eval_node(node.kids[1], depth + 1)
    ELSE IF node.kind = "Constant" THEN EvalConstant(node, tr)
    ELSE IF node.kind = "BinOp" THEN
        LET left == _eval_node(node.kids[1], depth + 1)
        IN  IF left.kind # "value" THEN WithTrace(left, tr)
            ELSE
                LET right == _eval_node(node.kids[2], depth + 1)
                IN  IF right.kind # "value"
                    THEN WithTrace(right, tr \o left.trace)
                    ELSE EvalBinOp(node, left.val, right.val,
                                   tr \o left.trace \o right.trace)
    ELSE IF node.kind = "UnaryOp" THEN
        LET operand == _eval_node(node.kids[1], depth + 1)
        IN  IF operand.kind # "value" THEN WithTrace(operand, tr)
            ELSE EvalUnaryOp(node, operand.val, tr \o operand.trace)
    ELSE IF node.kind = "Call" THEN EvalCall(node, depth, tr)
    ELSE IF node.kind = "Name" THEN EvalName(node, tr)
    ELSE EvalUnsupported(node, depth, tr)

\* ------------------------------------------------------------------------
\* safe_eval, from the result of ast.parse(expr, mode="eval"): either a
\* SyntaxError or the tree of the expression
\* ------------------------------------------------------------------------
ParseError == [ok |-> FALSE, tree |-> Constant(NoVal)]
Parsed(t) == [ok |-> TRUE, tree |-> t]

DisallowedKinds ==
    {"Import", "ImportFrom", "Lambda", "Global", "Nonlocal", "ClassDef",
     "FunctionDef"}

safe_eval_parsed(p) ==
    IF ~p.ok THEN EvalError("SyntaxError", "", "SyntaxError", <<>>)
    ELSE IF \E n \in Walk(Expression(p.tree)) : n.kind \in DisallowedKinds
         THEN EvalError("Disallowed", "", "", <<>>)
    ELSE _eval_node(Expression(p.tree), 1)

\* ------------------------------------------------------------------------
\* The caller of safe_eval: the texts it submits, given by their parse.
\* A text starts as a leaf (or does not parse) and grows by wrapping the
\* tree in one more node; each new text is passed to safe_eval.
\* ------------------------------------------------------------------------
Half == [t |-> "float", n |-> 1, d |-> 2]
StrV == [t |-> "str", n |-> 0, d |-> 1]

\* the texts the caller starts from:
\*   0  2  0.5  True  'a'  []  pi  sin  xyz  -2
Seeds ==
    {Constant(IntV(0)), Constant(IntV(2)), Constant(Half),
     Constant(BoolV(TRUE)), Constant(StrV), Other("List", <<>>),
     Name("pi"), Name("sin"), Name("xyz"),
     UnaryOp("USub", Constant(IntV(2)))}

\* the other operand or argument a wrapper adds
Siblings == {Constant(IntV(0)), Constant(IntV(2)), Constant(Half)}
Two == Constant(IntV(2))

BinOps == DOMAIN InitBinops \cup {"BitAnd"}
UnaryOps == DOMAIN InitUnaryops \cup {"Not"}
CallNames == FuncNames \cup {"unknown_fn"}
OtherKinds == {"Attribute", "Subscript", "Lambda", "Compare"}

\* tallest tree submitted: one level more than _eval_node can descend
MaxHeight == RecursionLimit

\* safe_eval(expr); a text outside the numeric range of the model is not
\* passed to safe_eval
NotCalled == Escapes("NotCalled", <<>>)
Submit(p) ==
    LET o == safe_eval_parsed(p)
    IN  IF o.kind = "OutOfModel" THEN NotCalled ELSE o

Resubmitted(c) ==
    Len(c) - Cardinality({c[i].input : i \in 1..Len(c)})

\* the trees one node taller than t that the caller builds from it
WrapUnary(t) == {UnaryOp(op, t) : op \in UnaryOps}
WrapBinOp(t) ==
    {BinOp(t, op, s) : op \in BinOps, s \in Siblings}
        \cup {BinOp(Two, op, t) : op \in BinOps}
WrapCall(t) ==
    {Call(Name(f), <<t>>, <<>>) : f \in CallNames}
        \cup UNION {{Call(Name(f), <<t, Two>>, <<>>),
                     Call(Name(f), <<Two, t>>, <<>>),
                     Call(Name(f), <<t, Name("xyz")>>, <<>>)} :
                        f \in {"log", "pow", "sin", "unknown_fn"}}
        \cup {Call(Name("log"), <<Two, Two, t>>, <<>>)}
WrapKeyword(t) ==
    UNION {{Call(Name(f), <<Two>>, <<t>>), Call(Name(f), <<>>, <<t>>)} :
              f \in {"abs", "unknown_fn"}}
WrapFunc(t) ==
    {Call(t, <<>>, <<>>), Call(t, <<Two>>, <<>>),
     Call(Other("Attribute", <<t>>), <<Two>>, <<>>)}
WrapOther(t) == {Other(k, <<t>>) : k \in OtherKinds}

\* the longer texts built from the text of tree t after k calls: any
\* wrapper for the first MaxWraps, then only one more minus in front of a
\* negated text, up to MaxHeight
Wraps(t, k) ==
    IF Height(t) >= MaxHeight THEN {}
    ELSE IF k <= MaxWraps THEN
        WrapUnary(t) \cup WrapBinOp(t) \cup WrapCall(t) \cup WrapKeyword(t)
            \cup WrapFunc(t) \cup WrapOther(t)
    ELSE IF t.kind = "UnaryOp" /\ t.op = "USub" THEN {UnaryOp("USub", t)}
    ELSE {}

\* a variant of the call in which safe_eval keeps its last result under
\* the name e; C7_DeterministicStateless tells it apart
Call_safe_eval_KeepsLast(p, log) ==
    /\ parsed' = p
    /\ outcome' = Submit(p)
    /\ calls' = Append(log, [input |-> p, out |-> outcome',
                             nth |-> calls[Len(calls)].nth + 1])
    /\ _constants' = IF outcome'.kind = "value" /\ IsReal(outcome'.val)
                     THEN [_constants EXCEPT !["e"] = outcome'.val]
                     ELSE _constants
    /\ UNCHANGED <<_allowed_binops, _allowed_unaryops, _math_funcs,
                   legacy_factorial, text_input, session_state, message,
                   presses>>

\* the caller passes the text p to safe_eval; log is what it remembers
\* of its earlier calls
Call_safe_eval(p, log) ==
    /\ parsed' = p
    /\ outcome' = Submit(p)
    /\ calls' = Append(log, [input |-> p, out |-> outcome',
                             nth |-> calls[Len(calls)].nth + 1])
    /\ UNCHANGED <<_allowed_binops, _allowed_unaryops, _math_funcs,
                   _constants, legacy_factorial, text_input, session_state,
                   message, presses>>

\* the caller passes a longer text
Extend ==
    /\ parsed.ok
    /\ Resubmitted(calls) = 0
    /\ \E t \in Wraps(parsed.tree, calls[Len(calls)].nth) :
          Call_safe_eval(Parsed(t), calls)

\* the caller passes an earlier text again, and from then on remembers
\* the calls of that text only
Resubmit ==
    /\ Resubmitted(calls) < MaxResubmits
    /\ \E i \in 1..Len(calls) :
          Call_safe_eval(calls[i].input,
                         SelectSeq(calls, LAMBDA c : c.input = calls[i].input))

vars ==
    <<_allowed_binops, _allowed_unaryops, _math_funcs, _constants,
      legacy_factorial, parsed, outcome, calls, text_input, session_state,
      message, presses>>

TablesInit ==
    /\ _allowed_binops = InitBinops
    /\ _allowed_unaryops = InitUnaryops
    /\ _math_funcs = InitMathFuncs
    /\ _constants = InitConstants
    /\ legacy_factorial \in BOOLEAN

Init ==
    /\ TablesInit
    /\ parsed \in {ParseError} \cup {Parsed(t) : t \in Seeds}
    /\ outcome = Submit(parsed)
    /\ calls = <<[input |-> parsed, out |-> outcome, nth |-> 1]>>
    /\ text_input = <<>>
    /\ session_state = [history |-> <<>>]
    /\ presses = <<>>
    /\ message = "none"

Next ==
    \/ Extend
    \/ Resubmit

Spec == Init /\ [][Next]_vars

\* ------------------------------------------------------------------------
\* Properties of the evaluator, stated for Spec.  Each is about the call
\* just made: parsed is the text passed and outcome what safe_eval gave.
\* ------------------------------------------------------------------------
Called == outcome.kind # "NotCalled"
Range(f) == {f[x] : x \in DOMAIN f}
RootIs(kind) == parsed.ok /\ parsed.tree.kind = kind
RootCall == RootIs("Call") /\ parsed.tree.func[1].kind = "Name"
RootFunc == parsed.tree.func[1].id
HasLambda == \E n \in Walk(parsed.tree) : n.kind \in DisallowedKinds

\* the node kinds the specification allows; a boolean literal is the
\* subject of C5 and counts as a number here
AllowedShape(n) ==
    CASE n.kind = "Constant" -> n.value.t \in {"int", "float", "bool"}
      [] n.kind = "Name" -> n.id \in {"pi", "e"}
      [] n.kind = "UnaryOp" -> n.op \in {"UAdd", "USub"}
      [] n.kind = "BinOp" ->
            n.op \in {"Add", "Sub", "Mult", "Div", "FloorDiv", "Mod", "Pow"}
      [] n.kind = "Call" -> n.func[1].kind = "Name"
      [] OTHER -> FALSE

\* operands, positional arguments and keyword arguments of a node
Operands(n) == n.kids \o n.keywords

RECURSIVE HasDisallowed(_)
HasDisallowed(n) ==
    \/ ~AllowedShape(n)
    \/ \E i \in 1..Len(Operands(n)) : HasDisallowed(Operands(n)[i])

\* C1 (as claimed): a text whose tree holds a node outside the allowed
\* kinds at any position, a keyword argument included, makes safe_eval
\* raise EvalError and never return a value.
C1_DisallowedRejected ==
    (Called /\ parsed.ok /\ HasDisallowed(parsed.tree))
        => outcome.kind = "EvalError"

\* C2: the only callables invoked are the entries of the whitelist tables
\* (17 functions), the only names resolved to values are pi and e; the
\* evaluation of a call of a name outside the function table ends in the
\* "function not allowed" error, that of a bare name outside the constant
\* table (sin included) in the "unknown identifier" error, never in a value.
C2_OnlyWhitelisted ==
    Called =>
        LET tr == outcome.trace
        IN  /\ Cardinality(DOMAIN _math_funcs) = 17
            /\ \A i \in 1..Len(tr) :
                  /\ tr[i].ev = "call" =>
                        tr[i].name \in Range(InitBinops)
                            \cup Range(InitUnaryops) \cup Range(InitMathFuncs)
                  /\ tr[i].ev = "resolve" => tr[i].name \in {"pi", "e"}
                  /\ (tr[i].ev = "lookup" /\ tr[i].name \notin FuncNames) =>
                        /\ i = Len(tr)
                        /\ outcome.kind = "EvalError"
                        /\ outcome.err = "FunctionNotAllowed"
                        /\ outcome.name = tr[i].name
                  /\ (tr[i].ev = "name" /\ tr[i].name \notin {"pi", "e"}) =>
                        /\ i = Len(tr)
                        /\ outcome.kind = "EvalError"
                        /\ outcome.err = "UnknownIdentifier"
                        /\ outcome.name = tr[i].name
            /\ (RootIs("Name") /\ parsed.tree.id \notin {"pi", "e"}) =>
                  /\ outcome.kind = "EvalError"
                  /\ outcome.err = "UnknownIdentifier"
                  /\ outcome.name = parsed.tree.id
            /\ (RootCall /\ RootFunc \notin FuncNames /\ ~HasLambda) =>
                  /\ outcome.kind = "EvalError"
                  /\ outcome.err = "FunctionNotAllowed"
                  /\ outcome.name = RootFunc

\* both cases of C2 in one run: the bare name sin, then unknown_fn(sin)
C2_Witness ==
    /\ Len(calls) = 2
    /\ calls[1].input = Parsed(Name("sin"))
    /\ calls[1].out.err = "UnknownIdentifier"
    /\ parsed = Parsed(Call(Name("unknown_fn"), <<Name("sin")>>, <<>>))
    /\ outcome.err = "FunctionNotAllowed"

\* the operands of the root BinOp, evaluated on their own
RootLeft == _eval_node(parsed.tree.kids[1], 3)
RootRight == _eval_node(parsed.tree.kids[2], 3)

\* the numeric faults of the binary operators
NumericFault(op, l, r) ==
    /\ IsReal(l)
    /\ IsReal(r)
    /\ \/ op \in {"Div", "FloorDiv", "Mod"} /\ r.n = 0
       \/ op = "Pow" /\ l.n < 0 /\ ~IsIntegral(r)

\* C3 (as claimed): when both operands of a BinOp evaluate, division,
\* floor division and modulo by zero and a negative base raised to a
\* fractional power each make safe_eval raise the operation error; no
\* value (in particular no complex value) is returned.
C3_FaultsAreOperationErrors ==
    (/\ Called
     /\ RootIs("BinOp")
     /\ RootLeft.kind = "value"
     /\ RootRight.kind = "value"
     /\ NumericFault(parsed.tree.op, RootLeft.val, RootRight.val))
        => (outcome.kind = "EvalError" /\ outcome.err = "OperationError")

\* C4 (as claimed): safe_eval either returns a number or raises EvalError;
\* no other exception escapes it, at any nesting depth.
C4_NumberOrEvalError ==
    Called => outcome.kind \in {"value", "EvalError"}

\* C5 (as claimed): a boolean literal anywhere in the expression makes
\* safe_eval raise EvalError, and a result is an int or a float, never a
\* bool.
C5_BooleansRejected ==
    Called =>
        /\ (parsed.ok /\ \E n \in Walk(parsed.tree) :
                n.kind = "Constant" /\ n.value.t = "bool")
              => outcome.kind = "EvalError"
        /\ outcome.kind = "value" => outcome.val.t \in {"int", "float"}

\* the positional arguments of the root call, evaluated on their own in
\* the order of the text
RootArgs == parsed.tree.kids
ArgOutcome(i) == _eval_node(RootArgs[i], 3)
ArgFails(i) == ArgOutcome(i).kind # "value"
Failing == {i \in 1..Len(RootArgs) : ArgFails(i)}
FirstFailing == CHOOSE i \in Failing : \A j \in Failing : i <= j
ArgVals == [i \in 1..Len(RootArgs) |-> ArgOutcome(i).val]

RECURSIVE ArgTraces(_)
ArgTraces(k) == IF k = 0 THEN <<>> ELSE ArgTraces(k - 1) \o ArgOutcome(k).trace

\* the argument counts the functions of the table accept
Arity(f) == IF f = "log" THEN {1, 2} ELSE IF f = "pow" THEN {2} ELSE {1}

Neg(v) == v.n < 0
\* an argument list of the right length outside the domain of f
OutsideDomain(f, a) ==
    CASE f \in {"asin", "acos"} -> Abs(a[1].n) > a[1].d
      [] f = "sqrt" -> Neg(a[1])
      [] f = "log10" -> a[1].n <= 0
      [] f = "log" ->
            \/ a[1].n <= 0
            \/ Len(a) = 2 /\ (a[2].n <= 0 \/ a[2].n = a[2].d)
      [] f = "factorial" -> Neg(a[1]) \/ ~IsIntegral(a[1])
      [] f = "pow" ->
            \/ a[1].n = 0 /\ Neg(a[2])
            \/ Neg(a[1]) /\ ~IsIntegral(a[2])
      [] OTHER -> FALSE

\* a call of a whitelisted function whose positional arguments all
\* evaluate to real numbers
WhitelistedCall ==
    /\ Called
    /\ RootCall
    /\ ~HasLambda
    /\ RootFunc \in FuncNames
    /\ Failing = {}
    /\ \A i \in 1..Len(RootArgs) : IsReal(ArgVals[i])
WrongCount == Len(RootArgs) \notin Arity(RootFunc)
DomainFault == ~WrongCount /\ OutsideDomain(RootFunc, ArgVals)

\* C6 (as claimed): a wrong argument count and an argument outside the
\* domain of the function both give the error kind BadArguments with the
\* name of the function.
C6_SameKindBadArguments ==
    (WhitelistedCall /\ (WrongCount \/ DomainFault))
        => /\ outcome.kind = "EvalError"
           /\ outcome.err = "BadArguments"
           /\ outcome.name = RootFunc

\* math.factorial rejects a float with TypeError from CPython 3.10 on
FloatToFactorial ==
    RootFunc = "factorial" /\ ArgVals[1].t = "float" /\ ~legacy_factorial

\* C6 (amended): a wrong count of positional arguments gives BadArguments,
\* an argument outside the domain gives the other kind, ErrorCalling
\* (BadArguments for a float passed to factorial where the library raises
\* TypeError for it); both carry the name of the function and no value is
\* returned.
C6_ArityAndDomainErrors ==
    WhitelistedCall =>
        /\ WrongCount =>
              /\ outcome.kind = "EvalError"
              /\ outcome.err = "BadArguments"
              /\ outcome.name = RootFunc
        /\ DomainFault =>
              /\ outcome.kind = "EvalError"
              /\ outcome.err = IF FloatToFactorial THEN "BadArguments"
                               ELSE "ErrorCalling"
              /\ outcome.name = RootFunc

\* asin(2): the right count, the argument outside [-1, 1]
C6_Witness ==
    /\ parsed = Parsed(Call(Name("asin"), <<Constant(IntV(2))>>, <<>>))
    /\ WhitelistedCall
    /\ DomainFault
    /\ outcome.err = "ErrorCalling"
    /\ outcome.name = "asin"

\* C7: in any sequence of calls, two calls with the same text give the
\* same outcome, and the four tables are those the module built.
C7_DeterministicStateless ==
    /\ \A i, j \in 1..Len(calls) :
          calls[i].input = calls[j].input => calls[i].out = calls[j].out
    /\ _allowed_binops = InitBinops
    /\ _allowed_unaryops = InitUnaryops
    /\ _math_funcs = InitMathFuncs
    /\ _constants = InitConstants

\* a text that gave a value is passed again after another call
C7_Witness ==
    /\ Len(calls) = 2
    /\ calls[1].input = calls[2].input
    /\ calls[1].out.kind = "value"
    /\ calls[2].out = calls[1].out
    /\ calls[1].nth = 1
    /\ calls[2].nth = 3

\* C8 (as claimed): every argument is evaluated before the name is looked
\* up, so a call of a name outside the table with a failing argument gives
\* the error of the argument.
C8_ArgsBeforeLookup ==
    (/\ Called
     /\ RootCall
     /\ ~HasLambda
     /\ RootFunc \notin FuncNames
     /\ Failing # {}
     /\ ArgOutcome(FirstFailing).kind = "EvalError")
        => /\ outcome.kind = "EvalError"
           /\ outcome.err = ArgOutcome(FirstFailing).err
           /\ outcome.name = ArgOutcome(FirstFailing).name

\* C8 (amended): the name is looked up before any argument is evaluated.
\* For a name outside the table the error is "function not allowed"
\* whatever the arguments are, and none of them is evaluated; for a name of
\* the table the arguments are evaluated left to right and the first one
\* that fails ends the evaluation with its own outcome.
C8_LookupBeforeArgs ==
    (Called /\ RootCall /\ ~HasLambda) =>
        LET head == <<Ev("visit", "Call"), Ev("lookup", RootFunc)>>
        IN  IF RootFunc \notin FuncNames THEN
                /\ outcome.kind = "EvalError"
                /\ outcome.err = "FunctionNotAllowed"
                /\ outcome.name = RootFunc
                /\ outcome.trace = head
            ELSE IF Failing # {} THEN
                outcome =
                    WithTrace(ArgOutcome(FirstFailing),
                              head \o ArgTraces(FirstFailing - 1))
            ELSE
                /\ SubSeq(outcome.trace, 1, Len(outcome.trace) - 1)
                      = head \o ArgTraces(Len(RootArgs))
                /\ outcome.trace[Len(outcome.trace)].ev = "call"

\* unknown_fn(xyz, 2): the first argument fails on its own
C8_Witness ==
    /\ parsed = Parsed(Call(Name("unknown_fn"), <<Name("xyz"), Two>>, <<>>))
    /\ ArgOutcome(FirstFailing).err = "UnknownIdentifier"
    /\ outcome.err = "FunctionNotAllowed"

\* ------------------------------------------------------------------------
\* The page.  A str is a sequence of one-character strings.
\* ast.parse(expr, mode="eval") for the texts of the page: digits, ".",
\* the operators + - * / // % **, parentheses, blanks and lower-case
\* names.  A text with anything else (a comma, a keyword, a numeric
\* suffix such as 1e5, 1j or 0x1, a number above MaxAbs) is outside the
\* model.
\* ------------------------------------------------------------------------
Digit == <<"0", "1", "2", "3", "4", "5", "6", "7", "8", "9">>
IsDigit(c) == \E i \in 1..Len(Digit) : Digit[i] = c
DigitVal(c) == (CHOOSE i \in 1..Len(Digit) : Digit[i] = c) - 1
IsLetter(c) ==
    c \in {"a", "b", "c", "d", "e", "f", "g", "h", "i", "j", "k", "l", "m",
           "n", "o", "p", "q", "r", "s", "t", "u", "v", "w", "x", "y", "z"}
OpChars == {"+", "-", "*", "/", "%", "(", ")", "."}
\* letters that can continue a number or start a keyword right after it
SuffixLetters == {"a", "b", "e", "f", "i", "j", "n", "o", "x"}
Keywords ==
    {"and", "as", "assert", "async", "await", "break", "class", "continue",
     "def", "del", "elif", "else", "except", "finally", "for", "from",
     "global", "if", "import", "in", "is", "lambda", "nonlocal", "not",
     "or", "pass", "raise", "return", "try", "while", "with", "yield"}

\* str.strip() == ""
IsBlank(s) == \A i \in 1..Len(s) : s[i] = " "

\* the value of the literal ...
EllipsisV == [t |-> "ellipsis", n |-> 0, d |-> 1]

Tok(k, id, val) == [k |-> k, id |-> id, val |-> val]
ErrTok == Tok("error", "", NoVal)
OutsideTok == Tok("outside", "", NoVal)

RECURSIVE DigitsEnd(_, _)
DigitsEnd(s, i) ==
    IF i <= Len(s) /\ IsDigit(s[i]) THEN DigitsEnd(s, i + 1) ELSE i

RECURSIVE WordEnd(_, _)
WordEnd(s, i) ==
    IF i <= Len(s) /\ (IsLetter(s[i]) \/ IsDigit(s[i]))
    THEN WordEnd(s, i + 1) ELSE i

RECURSIVE Join(_, _, _)
Join(s, i, j) == IF i >= j THEN "" ELSE s[i] \o Join(s, i + 1, j)

\* the number written by the digits of s[i..j-1] (a "." among them is
\* skipped), cut off once it is above MaxAbs
RECURSIVE NatOf(_, _, _, _)
NatOf(s, i, j, acc) ==
    IF i >= j \/ acc > MaxAbs THEN acc
    ELSE IF s[i] = "." THEN NatOf(s, i + 1, j, acc)
    ELSE NatOf(s, i + 1, j, 10 * acc + DigitVal(s[i]))

RECURSIVE Pow10(_)
Pow10(k) == IF k = 0 THEN 1 ELSE 10 * Pow10(k - 1)

\* the token of the numeric literal s[i..k-1], whose "." (if any) is at j
NumberTok(s, i, j, k) ==
    LET isfloat == j < k
        n == NatOf(s, i, k, 0)
        places == k - j - 1
    IN  IF ~isfloat THEN
            IF k - i > 1 /\ s[i] = "0" /\ n # 0 THEN ErrTok
            ELSE IF n > MaxAbs THEN OutsideTok
            ELSE Tok("num", "", IntV(n))
        ELSE IF n > MaxAbs \/ places > 4 THEN OutsideTok
        ELSE LET f == MkFloat(n, Pow10(places))
             IN  IF f.ok THEN Tok("num", "", f.val) ELSE OutsideTok

RECURSIVE tokenize(_, _)
tokenize(s, i) ==
    IF i > Len(s) THEN <<>>
    ELSE IF s[i] = " " THEN tokenize(s, i + 1)
    ELSE IF IsDigit(s[i]) \/ (s[i] = "." /\ i < Len(s) /\ IsDigit(s[i + 1]))
    THEN
        LET j == DigitsEnd(s, i)
            k == IF j <= Len(s) /\ s[j] = "." THEN DigitsEnd(s, j + 1) ELSE j
        IN  IF k <= Len(s) /\ IsLetter(s[k])
            THEN (IF s[k] \in SuffixLetters THEN <<OutsideTok>>
                  ELSE <<ErrTok>>)
            ELSE <<NumberTok(s, i, j, k)>> \o tokenize(s, k)
    ELSE IF IsLetter(s[i]) THEN
        LET k == WordEnd(s, i)
            id == Join(s, i, k)
        IN  <<IF id \in Keywords THEN OutsideTok ELSE Tok("name", id, NoVal)>>
                \o tokenize(s, k)
    ELSE IF s[i] = "." /\ i + 2 <= Len(s) /\ s[i + 1] = "." /\ s[i + 2] = "."
    THEN <<Tok("num", "", EllipsisV)>> \o tokenize(s, i + 3)
    ELSE IF s[i] \in {"*", "/"} /\ i < Len(s) /\ s[i + 1] = s[i]
    THEN <<Tok("op", s[i] \o s[i], NoVal)>> \o tokenize(s, i + 2)
    ELSE IF s[i] \in OpChars THEN <<Tok("op", s[i], NoVal)>> \o tokenize(s, i + 1)
    ELSE <<OutsideTok>>

\* the grammar of expressions, by recursive descent over the tokens; a
\* result is the tree read and the position after it
Fail == [ok |-> FALSE, tree |-> Constant(NoVal), pos |-> 0]
Got(t, p) == [ok |-> TRUE, tree |-> t, pos |-> p]
IsOp(ts, p, syms) == p <= Len(ts) /\ ts[p].k = "op" /\ ts[p].id \in syms
BinOpClass(sym) ==
    CASE sym = "+" -> "Add" [] sym = "-" -> "Sub" [] sym = "*" -> "Mult"
      [] sym = "/" -> "Div" [] sym = "//" -> "FloorDiv" [] sym = "%" -> "Mod"
      [] sym = "**" -> "Pow"

\* one operator for all the rules, named by rule; t is the tree read so
\* far for the rules that continue one
\*   sum:    term (("+" | "-") term)*
\*   term:   factor (("*" | "/" | "//" | "%") factor)*
\*   factor: ("+" | "-") factor | power
\*   power:  atom trailer* ["**" factor]
\*   trailer: "(" [["*" | "**"] sum] ")" | "." NAME
\*   atom:   NUMBER | NAME | "(" [sum] ")"
NoTree == Constant(NoVal)
RECURSIVE parse(_, _, _, _)
parse(rule, ts, p, t) ==
    CASE rule = "sum" ->
            LET l == parse("term", ts, p, NoTree)
            IN  IF l.ok THEN parse("sum_rest", ts, l.pos, l.tree) ELSE Fail
      [] rule = "term" ->
            LET l == parse("factor", ts, p, NoTree)
            IN  IF l.ok THEN parse("term_rest", ts, l.pos, l.tree) ELSE Fail
      [] rule \in {"sum_rest", "term_rest"} ->
            IF IsOp(ts, p, IF rule = "sum_rest" THEN {"+", "-"}
                           ELSE {"*", "/", "//", "%"})
            THEN
                LET r == parse(IF rule = "sum_rest" THEN "term" ELSE "factor",
                               ts, p + 1, NoTree)
                IN  IF r.ok
                    THEN parse(rule, ts, r.pos,
                               BinOp(t, BinOpClass(ts[p].id), r.tree))
                    ELSE Fail
            ELSE Got(t, p)
      [] rule = "factor" ->
            IF IsOp(ts, p, {"+", "-"}) THEN
                LET x == parse("factor", ts, p + 1, NoTree)
                IN  IF x.ok
                    THEN Got(UnaryOp(IF ts[p].id = "-" THEN "USub" ELSE "UAdd",
                                     x.tree), x.pos)
                    ELSE Fail
            ELSE
                LET a == parse("atom", ts, p, NoTree)
                    b == IF a.ok THEN parse("trailers", ts, a.pos, a.tree)
                         ELSE Fail
                IN  IF b.ok /\ IsOp(ts, b.pos, {"**"}) THEN
                        LET x == parse("factor", ts, b.pos + 1, NoTree)
                        IN  IF x.ok
                            THEN Got(BinOp(b.tree, "Pow", x.tree), x.pos)
                            ELSE Fail
                    ELSE b
      [] rule = "trailers" ->
            IF IsOp(ts, p, {"("}) /\ IsOp(ts, p + 1, {")"})
            THEN parse(rule, ts, p + 2, Call(t, <<>>, <<>>))
            ELSE IF IsOp(ts, p, {"("}) THEN
                LET star == IsOp(ts, p + 1, {"*"})
                    dstar == IsOp(ts, p + 1, {"**"})
                    a == parse("sum", ts,
                               IF star \/ dstar THEN p + 2 ELSE p + 1, NoTree)
                IN  IF a.ok /\ IsOp(ts, a.pos, {")"}) THEN
                        parse(rule, ts, a.pos + 1,
                              IF dstar THEN Call(t, <<>>, <<a.tree>>)
                              ELSE IF star
                              THEN Call(t, <<Other("Starred", <<a.tree>>)>>, <<>>)
                              ELSE Call(t, <<a.tree>>, <<>>))
                    ELSE Fail
            ELSE IF IsOp(ts, p, {"."}) THEN
                IF p + 1 <= Len(ts) /\ ts[p + 1].k = "name"
                THEN parse(rule, ts, p + 2, Other("Attribute", <<t>>))
                ELSE Fail
            ELSE Got(t, p)
      [] rule = "atom" ->
            IF p > Len(ts) THEN Fail
            ELSE IF ts[p].k = "num" THEN Got(Constant(ts[p].val), p + 1)
            ELSE IF ts[p].k = "name" THEN Got(Name(ts[p].id), p + 1)
            ELSE IF IsOp(ts, p, {"("}) /\ IsOp(ts, p + 1, {")"})
            THEN Got(Other("Tuple", <<>>), p + 2)
            ELSE IF IsOp(ts, p, {"("}) THEN
                LET x == parse("sum", ts, p + 1, NoTree)
                IN  IF x.ok /\ IsOp(ts, x.pos, {")"})
                    THEN Got(x.tree, x.pos + 1)
                    ELSE Fail
            ELSE Fail

\* the texts the model covers
Outside(ts) == \E i \in 1..Len(ts) : ts[i].k = "outside"
Modelled(s) == ~Outside(tokenize(s, 1))

\* tree = ast.parse(expr, mode="eval"), or SyntaxError
ast_parse(s) ==
    LET ts == tokenize(s, 1)
        r == parse("sum", ts, 1, NoTree)
    IN  IF s # <<>> /\ s[1] = " " THEN ParseError
        ELSE IF \E i \in 1..Len(ts) : ts[i].k = "error" THEN ParseError
        ELSE IF r.ok /\ r.pos = Len(ts) + 1 THEN Parsed(r.tree)
        ELSE ParseError

\* ------------------------------------------------------------------------
\* The script of the page.  Every action is one run of the script, started
\* by the press of one button or by a change of the text input; the state
\* kept between runs is the widget value and st.session_state.
\* ------------------------------------------------------------------------
buttons ==
    <<"7", "8", "9", "/", "4", "5", "6", "*", "1", "2", "3", "-", "0", ".",
      "(", ")">>
func_buttons ==
    <<<<"s", "i", "n", "(">>, <<"c", "o", "s", "(">>, <<"t", "a", "n", "(">>,
      <<"s", "q", "r", "t", "(">>>>

\* what the user of the model types and presses
TypedTexts ==
    {<<>>, <<" ">>, <<"2", "/", "7">>, <<"-", "-", "-", "-", "7">>}
PressedKeys == {"4", "0", "/", ")"}
PressedFuncs == {<<"s", "q", "r", "t", "(">>}

HasBuffer == "expr_buffer" \in DOMAIN session_state
WithBuffer(b) == [history |-> session_state.history, expr_buffer |-> b]

\* one button press written to the record of the session
Press(action, expr, result, val) ==
    [action |-> action, expr |-> expr, result |-> result, val |-> val]
Pressed(action) ==
    /\ Len(presses) < MaxPresses
    /\ presses' = Append(presses, Press(action, <<>>, "", NoVal))
Tables == <<_allowed_binops, _allowed_unaryops, _math_funcs, _constants,
            legacy_factorial>>

\* the buffer after the press of a keypad or function button
append_label(label) ==
    (IF HasBuffer THEN session_state.expr_buffer ELSE text_input) \o label

\* the value of the widget changes; no button is pressed in this run
Type ==
    /\ \E t \in TypedTexts : t # text_input /\ text_input' = t
    /\ message' = "none"
    /\ UNCHANGED <<Tables, parsed, outcome, calls, session_state, presses>>

Keypad ==
    /\ \E i \in 1..Len(buttons) :
          /\ buttons[i] \in PressedKeys
          /\ session_state' = WithBuffer(append_label(<<buttons[i]>>))
    /\ Pressed("Keypad")
    /\ message' = "none"
    /\ UNCHANGED <<Tables, parsed, outcome, calls, text_input>>

FuncButton ==
    /\ \E i \in 1..Len(func_buttons) :
          /\ func_buttons[i] \in PressedFuncs
          /\ session_state' = WithBuffer(append_label(func_buttons[i]))
    /\ Pressed("FuncButton")
    /\ message' = "none"
    /\ UNCHANGED <<Tables, parsed, outcome, calls, text_input>>

\* the number of 2s (p = 2) or 5s (p = 5) in d
RECURSIVE Times(_, _)
Times(d, p) == IF d % p = 0 THEN 1 + Times(d \div p, p) ELSE 0
Max(a, b) == IF a >= b THEN a ELSE b
RECURSIVE Odd25(_)
Odd25(d) ==
    IF d % 2 = 0 THEN Odd25(d \div 2)
    ELSE IF d % 5 = 0 THEN Odd25(d \div 5) ELSE d

\* n/d is a decimal of at most 12 significant digits: d = 2^a * 5^b and
\* n * 10^k / d < 10^12 for k = max(a, b), which holds for every k <= 8
\* of the represented range
Decimal12(v) ==
    LET k == Max(Times(v.d, 2), Times(v.d, 5))
    IN  /\ Odd25(v.d) = 1
        /\ \/ k <= 8
           \/ k <= 12 /\ Abs(v.n) < v.d * Pow10(12 - k)
           \/ k > 12 /\ Abs(v.n) * Pow10(k - 12) < v.d

\* float(f"{result:.12g}") for a float, the result itself otherwise; a
\* float that needs more digits is replaced by its rounding to 12
Format12g(v) == [v EXCEPT !.t = "float:.12g"]
result_display(v) ==
    IF v.t = "float" /\ ~Decimal12(v) THEN Format12g(v) ELSE v

\* a variant that adds the entry at the end of the list;
\* C9_HistoryMostRecentFirst tells it apart
history_append(history, entry) == Append(history, entry)
\* st.session_state.history.insert(0, (expr, result_display))
history_insert(history, entry) == <<entry>> \o history

\* a variant that takes the value of the widget whatever the buffer holds;
\* C10_ComputeTakesBuffer tells it apart
expr_of_widget == text_input
\* the local variable expr when the Compute button is reached
expr_at_compute ==
    IF HasBuffer /\ session_state.expr_buffer # text_input
    THEN session_state.expr_buffer
    ELSE text_input

Compute ==
    LET expr == expr_at_compute
    IN  /\ Len(presses) < MaxPresses
        /\ UNCHANGED <<Tables, text_input>>
        /\ IF expr = <<>> \/ IsBlank(expr) THEN
               /\ message' = "Please enter an expression."
               /\ presses' = Append(presses, Press("Compute", expr, "blank", NoVal))
               /\ UNCHANGED <<parsed, outcome, calls, session_state>>
           ELSE
               /\ Modelled(expr)
               /\ parsed' = ast_parse(expr)
               /\ outcome' = Submit(parsed')
               /\ outcome'.kind # "NotCalled"
               /\ calls' = Append(calls, [input |-> parsed', out |-> outcome',
                                          nth |-> Len(calls) + 1])
               /\ presses' = Append(presses, Press("Compute", expr, outcome'.kind,
                                                   outcome'.val))
               /\ IF outcome'.kind = "value" THEN
                      /\ message' = "Result"
                      /\ session_state' =
                            [history |->
                                history_insert(session_state.history,
                                               <<expr, result_display(outcome'.val)>>),
                             expr_buffer |-> <<>>]
                  ELSE
                      /\ message' = IF outcome'.kind = "EvalError" THEN "Error"
                                    ELSE "Unexpected error"
                      /\ UNCHANGED session_state

\* st.experimental_rerun() starts the script again with no button pressed,
\* or, on a Streamlit without that function, raises AttributeError
Clear ==
    /\ session_state' = WithBuffer(<<>>)
    /\ Pressed("Clear")
    /\ message' \in {"none", "AttributeError"}
    /\ UNCHANGED <<Tables, parsed, outcome, calls, text_input>>

ClearHistory ==
    /\ session_state' = [session_state EXCEPT !.history = <<>>]
    /\ Pressed("ClearHistory")
    /\ message' = "none"
    /\ UNCHANGED <<Tables, parsed, outcome, calls, text_input>>

\* the session after the first run of the script
UIInit ==
    /\ TablesInit
    /\ parsed = ParseError
    /\ outcome = NotCalled
    /\ calls = <<>>
    /\ text_input = <<>>
    /\ session_state = [history |-> <<>>]
    /\ message = "none"
    /\ presses = <<>>

UINext == Type \/ Keypad \/ FuncButton \/ Compute \/ Clear \/ ClearHistory

UISpec == UIInit /\ [][UINext]_vars

\* ------------------------------------------------------------------------
\* Properties of the page, stated for UISpec.
\* ------------------------------------------------------------------------
LastPress == presses[Len(presses)]
ClearHistoryAt == {i \in 1..Len(presses) : presses[i].action = "ClearHistory"}
LastClearHistory ==
    IF ClearHistoryAt = {} THEN 0
    ELSE CHOOSE i \in ClearHistoryAt : \A j \in ClearHistoryAt : j <= i
\* the Compute presses that gave a value since the last Clear History
SuccessfulComputes ==
    SelectSeq(SubSeq(presses, LastClearHistory + 1, Len(presses)),
              LAMBDA e : e.action = "Compute" /\ e.result = "value")

\* C9: after any sequence of presses, history is the list of the pairs
\* (expression, displayed result) of the Compute presses that evaluated
\* successfully since the last Clear History, the most recent first.
C9_HistoryMostRecentFirst ==
    LET sc == SuccessfulComputes
        n == Len(sc)
    IN  session_state.history =
            [i \in 1..n |-> <<sc[n + 1 - i].expr,
                              result_display(sc[n + 1 - i].val)>>]

\* 2/7 computed, then 4 from the keypad computed: two entries, 4 first
C9_Witness ==
    /\ Len(session_state.history) = 2
    /\ session_state.history[1] = <<<<"4">>, IntV(4)>>
    /\ session_state.history[2][1] = <<"2", "/", "7">>
    /\ session_state.history[2][2].t = "float:.12g"
    /\ LastPress.action = "Compute"

\* this step is a run of the script with Compute pressed
ComputePressed ==
    /\ Len(presses') = Len(presses) + 1
    /\ presses'[Len(presses')].action = "Compute"
\* a successful Compute or a Clear, and no keypad or function button since
ResetAndNoKeySince ==
    \E j \in 1..Len(presses) :
        /\ \/ presses[j].action = "Clear"
           \/ presses[j].action = "Compute" /\ presses[j].result = "value"
        /\ \A k \in (j + 1)..Len(presses) :
              presses[k].action \notin {"Keypad", "FuncButton"}

=============================================================================
